---- MODULE Spec2Model ----
(***************************************************************************)
(* Indexed random access into a line-wrapped FASTA file (zyhuang/seqvar):  *)
(* region.Region, sequence.Sequence and prototype/fasta.Fasta.             *)
(*                                                                         *)
(* Text is modelled as sequences of one-character strings, so that         *)
(* substring tests, formatting and newline handling are computed and not   *)
(* assumed.  A Python optional integer (None or an int) is the empty       *)
(* sequence or a one-element sequence.                                     *)
(***************************************************************************)
EXTENDS Integers, Sequences, FiniteSets, TLC

\* ------------------------------------------------------------------ bounds
\* longest first contig (in bases)
MaxLen == 4
\* widest line (bases per line) of the first contig
MaxNbase == 3
\* how many bytes may be missing from the end of the sequence file
MaxTrunc == 2

\* ------------------------------------------------------------- characters
LF == "\n"
CR == "\r"

Min(a, b) == IF a < b THEN a ELSE b

\* s[m..n] (1-based, inclusive), clipped to the sequence: Python slicing
Slice(s, m, n) ==
  LET lo == IF m < 1 THEN 1 ELSE m
      hi == Min(n, Len(s))
  IN  IF lo > hi THEN << >> ELSE [i \in 1..(hi - lo + 1) |-> s[lo + i - 1]]

\* ch in s
Contains(s, ch) == \E i \in DOMAIN s : s[i] = ch

\* the decimal digits of a natural number
RECURSIVE DecNat(_)
DecNat(n) ==
  LET d == <<"0", "1", "2", "3", "4", "5", "6", "7", "8", "9">>
  IN  IF n < 10 THEN << d[n + 1] >> ELSE DecNat(n \div 10) \o << d[(n % 10) + 1] >>

\* '{}'.format(n) for an int n
Dec(n) == IF n < 0 THEN <<"-">> \o DecNat(0 - n) ELSE DecNat(n)

\* ------------------------------------------------- the files on disk
\* Bases of the contigs of the sequence file: all distinct, so that a shifted
\* or over-long read is visible in the result.
Alphabet == <<"A", "C", "G", "T", "N", "R", "Y", "K", "M", "S">>
Bases2 == <<"V", "H", "D">>
Bases3 == <<"W", "B">>

\* the terminator of a sequence line: two bytes, one byte, or none at all
TermBytes(term) ==
  IF term = "CRLF" THEN <<CR, LF>> ELSE IF term = "NONE" THEN << >> ELSE <<LF>>

\* the contigs of a sequence file: name, bases, bases per line
Contigs(w) ==
  << [name |-> w.names[1], bases |-> Slice(Alphabet, 1, w.la), wrap |-> w.nbase],
     [name |-> w.names[2], bases |-> Bases2, wrap |-> 2],
     [name |-> w.names[3], bases |-> Bases3, wrap |-> 1] >>

\* one contig's sequence lines: wrap bases per line, each line terminated
RECURSIVE WrapLines(_, _, _)
WrapLines(bases, wrap, term) ==
  IF bases = << >> THEN << >>
  ELSE Slice(bases, 1, wrap) \o TermBytes(term)
         \o WrapLines(Slice(bases, wrap + 1, Len(bases)), wrap, term)

\* a header line always ends: in CR LF in a CRLF file, in LF otherwise
HeaderLine(name, term) ==
  <<">">> \o name \o (IF term = "CRLF" THEN <<CR, LF>> ELSE <<LF>>)

\* the bytes of the whole sequence file, contigs 1..k
RECURSIVE LayoutUpTo(_, _)
LayoutUpTo(w, k) ==
  IF k = 0 THEN << >>
  ELSE LET c == Contigs(w)[k]
       IN  LayoutUpTo(w, k - 1) \o HeaderLine(c.name, w.term)
             \o WrapLines(c.bases, c.wrap, w.term)

Layout(w) == LayoutUpTo(w, Len(Contigs(w)))

\* the index line of contig k, as an indexer writes it for that layout
IndexLine(w, k) ==
  LET c == Contigs(w)[k]
      nb == Min(c.wrap, Len(c.bases))
  IN  [chrom |-> c.name,
       chrom_len |-> Len(c.bases),
       byte_offset |-> Len(LayoutUpTo(w, k - 1)) + Len(HeaderLine(c.name, w.term)),
       line_nbase |-> nb,
       line_nchar |-> nb + Len(TermBytes(w.term))]

IndexFile(w) == [k \in 1..Len(Contigs(w)) |-> IndexLine(w, k)]

\* the sequence file with its last w.trunc bytes missing
FastaFile(w) == Slice(Layout(w), 1, Len(Layout(w)) - w.trunc)

NameA == <<"a">>
NameB == <<"b">>
NameC == <<"c">>
NameZ == <<"z">>

\* The sequence files of the model: whole files over every length and line
\* width of the first contig, files cut short at the end, and whole files in
\* which a contig name is used twice.
Terms == {"LF", "CRLF", "NONE"}
Worlds ==
  [la : 1..MaxLen, nbase : 1..MaxNbase, term : Terms, trunc : {0},
   names : {<<NameA, NameB, NameC>>}]
  \cup
  [la : {1}, nbase : {1}, term : Terms, trunc : 1..MaxTrunc,
   names : {<<NameA, NameB, NameC>>}]
  \cup
  [la : {MaxLen}, nbase : {2}, term : Terms, trunc : {0},
   names : {<<NameA, NameB, NameA>>, <<NameA, NameA, NameC>>}]

\* ------------------------------------------------------------ region.Region
\* The outcome of Region(*args): the object's attributes, and in exc the
\* exception that left the constructor ("none" when it returned).
BlankRegion == [exc |-> "none", chrom |-> << >>, pstart |-> -1, pend |-> -1, length |-> -1]

Raise(e) == [BlankRegion EXCEPT !.exc = e]

\* RegionInit without the "pend < pstart" test
RegionInitNoOrderCheck(args) ==
  IF Len(args) = 0 THEN BlankRegion
  ELSE IF Len(args) > 3 THEN Raise("InternalError")
  ELSE IF Contains(args[1], ":") \/ Contains(args[1], "-") THEN Raise("InternalError")
  ELSE IF Len(args) = 2 THEN
    IF args[2] <= 0 THEN Raise("RegionRangeError")
    ELSE [exc |-> "none", chrom |-> args[1], pstart |-> args[2], pend |-> args[2],
          length |-> 1]
  ELSE IF Len(args) = 3 THEN
    IF args[2] <= 0 \/ args[3] <= 0 THEN Raise("RegionRangeError")
    ELSE [exc |-> "none", chrom |-> args[1], pstart |-> args[2], pend |-> args[3],
          length |-> args[3] - args[2] + 1]
  ELSE Raise("UnboundLocalError")

RegionInit(args) ==
  IF Len(args) = 0 THEN BlankRegion
  ELSE IF Len(args) > 3 THEN Raise("InternalError")
  ELSE IF Contains(args[1], ":") \/ Contains(args[1], "-") THEN Raise("InternalError")
  ELSE IF Len(args) = 2 THEN
    IF args[2] <= 0 THEN Raise("RegionRangeError")
    ELSE [exc |-> "none", chrom |-> args[1], pstart |-> args[2], pend |-> args[2],
          length |-> 1]
  ELSE IF Len(args) = 3 THEN
    IF args[2] <= 0 \/ args[3] <= 0 THEN Raise("RegionRangeError")
    ELSE IF args[3] < args[2] THEN Raise("RegionRangeError")
    ELSE [exc |-> "none", chrom |-> args[1], pstart |-> args[2], pend |-> args[3],
          length |-> args[3] - args[2] + 1]
  \* one argument: pstart, pend and length are never bound, and the final
  \* assignment reads them
  ELSE Raise("UnboundLocalError")

RegionStr(r) ==
  IF r.length = -1 THEN r.chrom
  ELSE r.chrom \o <<":">> \o Dec(r.pstart) \o <<"-">> \o Dec(r.pend)

\* --------------------------------------------------------- the index table
EmptyTable == [fai_data |-> << >>, chrom_list |-> << >>]

\* fai_data[chrom] = {...}
SetItem(d, k, v) == [x \in (DOMAIN d) \cup {k} |-> IF x = k THEN v ELSE d[x]]

\* IndexLoop appending a name to chrom_list only the first time it is seen
RECURSIVE IndexLoopListedOnce(_, _)
IndexLoopListedOnce(lines, t) ==
  IF lines = << >> THEN t
  ELSE LET l == Head(lines)
           entry == [chrom_len |-> l.chrom_len, byte_offset |-> l.byte_offset,
                     line_nbase |-> l.line_nbase, line_nchar |-> l.line_nchar]
       IN  IndexLoopListedOnce(Tail(lines),
             [fai_data |-> SetItem(t.fai_data, l.chrom, entry),
              chrom_list |-> IF l.chrom \in DOMAIN t.fai_data THEN t.chrom_list
                             ELSE Append(t.chrom_list, l.chrom)])

\* for line in fai_file: ...
RECURSIVE IndexLoop(_, _)
IndexLoop(lines, t) ==
  IF lines = << >> THEN t
  ELSE LET l == Head(lines)
           entry == [chrom_len |-> l.chrom_len, byte_offset |-> l.byte_offset,
                     line_nbase |-> l.line_nbase, line_nchar |-> l.line_nchar]
       IN  IndexLoop(Tail(lines),
                     [fai_data |-> SetItem(t.fai_data, l.chrom, entry),
                      chrom_list |-> Append(t.chrom_list, l.chrom)])

Sequence_load_index(lines) == IndexLoop(lines, EmptyTable)

Fasta_read_index(lines) == IndexLoop(lines, EmptyTable)

\* ------------------------------------------------------- offset arithmetic
\* Offset that forgets the terminators of the lines before p
OffsetNoTerminators(e, p) == e.byte_offset + p

\* byte offset of the 0-based base p of a contig
Offset(e, p) ==
  e.byte_offset + p + (e.line_nchar - e.line_nbase) * (p \div e.line_nbase)

NoLocals ==
  [offset_start |-> 0, offset_end |-> 0, read_nbyte |-> 0,
   pstart |-> 0, pend |-> 0, region |-> << >>, seq |-> << >>]

\* Sequence_resolve that does not test for the chrom and reads from the start
\* of the file when it is not in the table
Sequence_resolve_unchecked(data, qregion) ==
  LET e == IF qregion.chrom \in DOMAIN data THEN data[qregion.chrom]
           ELSE [chrom_len |-> 1, byte_offset |-> 0, line_nbase |-> 1, line_nchar |-> 2]
      whole == qregion.length = -1 \/ qregion.pend > e.chrom_len
      query_start == IF whole THEN 0 ELSE qregion.pstart - 1
      query_end == IF whole THEN e.chrom_len - 1 ELSE qregion.pend - 1
      offset_start == Offset(e, query_start)
      offset_end == Offset(e, query_end)
  IN  [found |-> TRUE, ok |-> TRUE, warn |-> "",
       loc |-> [NoLocals EXCEPT !.offset_start = offset_start,
                                !.offset_end = offset_end,
                                !.read_nbyte = offset_end - offset_start + 1,
                                !.pstart = query_start + 1,
                                !.pend = query_end + 1]]

\* Sequence.query_region up to the open(): found = FALSE is the early return
Sequence_resolve(data, qregion) ==
  IF qregion.chrom \notin DOMAIN data
    THEN [found |-> FALSE, ok |-> FALSE, warn |-> "chrom not found", loc |-> NoLocals]
  ELSE
    LET e == data[qregion.chrom]
        whole == qregion.length = -1 \/ qregion.pend > e.chrom_len
        query_start == IF whole THEN 0 ELSE qregion.pstart - 1
        query_end == IF whole THEN e.chrom_len - 1 ELSE qregion.pend - 1
        offset_start == Offset(e, query_start)
        offset_end == Offset(e, query_end)
    IN  [found |-> TRUE, ok |-> TRUE, warn |-> "",
         loc |-> [NoLocals EXCEPT !.offset_start = offset_start,
                                  !.offset_end = offset_end,
                                  !.read_nbyte = offset_end - offset_start + 1,
                                  !.pstart = query_start + 1,
                                  !.pend = query_end + 1]]

\* Fasta_resolve taking the 1-based positions as 0-based in the offsets
Fasta_resolve_one_based(data, chrom, pstart0, pend0) ==
  IF chrom \notin DOMAIN data
    THEN [found |-> FALSE, ok |-> FALSE, warn |-> "chrom not found", loc |-> NoLocals]
  ELSE
    LET e == data[chrom]
        pstart == IF pstart0 = << >> \/ pstart0[1] = 0 THEN 1 ELSE pstart0[1]
        pend == IF pend0 = << >> \/ pend0[1] = 0 THEN e.chrom_len ELSE pend0[1]
        region == chrom \o <<":">> \o Dec(pstart) \o <<"-">> \o Dec(pend)
        named == [NoLocals EXCEPT !.region = region, !.pstart = pstart, !.pend = pend]
        offset_start == Offset(e, pstart)
        offset_end == Offset(e, pend)
    IN  IF pstart < 1 \/ pstart > e.chrom_len
          THEN [found |-> TRUE, ok |-> FALSE, warn |-> "illegal start", loc |-> named]
        ELSE IF pend < 1 \/ pend > e.chrom_len
          THEN [found |-> TRUE, ok |-> FALSE, warn |-> "illegal end", loc |-> named]
        ELSE IF pend < pstart
          THEN [found |-> TRUE, ok |-> FALSE, warn |-> "negative length", loc |-> named]
        ELSE [found |-> TRUE, ok |-> TRUE, warn |-> "",
              loc |-> [named EXCEPT !.offset_start = offset_start,
                                    !.offset_end = offset_end,
                                    !.read_nbyte = offset_end - offset_start + 1]]

\* not x, for an optional int
Falsy(x) == x = << >> \/ x[1] = 0

\* Fasta.query_region up to the open(): found = FALSE is the unknown chrom,
\* ok = FALSE one of the three "illegal position" returns
Fasta_resolve(data, chrom, pstart0, pend0) ==
  IF chrom \notin DOMAIN data
    THEN [found |-> FALSE, ok |-> FALSE, warn |-> "chrom not found", loc |-> NoLocals]
  ELSE
    LET e == data[chrom]
        pstart == IF Falsy(pstart0) THEN 1 ELSE pstart0[1]
        pend == IF Falsy(pend0) THEN e.chrom_len ELSE pend0[1]
        region == chrom \o <<":">> \o Dec(pstart) \o <<"-">> \o Dec(pend)
        named == [NoLocals EXCEPT !.region = region, !.pstart = pstart, !.pend = pend]
        offset_start == Offset(e, pstart - 1)
        offset_end == Offset(e, pend - 1)
    IN  IF pstart < 1 \/ pstart > e.chrom_len
          THEN [found |-> TRUE, ok |-> FALSE, warn |-> "illegal start", loc |-> named]
        ELSE IF pend < 1 \/ pend > e.chrom_len
          THEN [found |-> TRUE, ok |-> FALSE, warn |-> "illegal end", loc |-> named]
        ELSE IF pend < pstart
          THEN [found |-> TRUE, ok |-> FALSE, warn |-> "negative length", loc |-> named]
        ELSE [found |-> TRUE, ok |-> TRUE, warn |-> "",
              loc |-> [named EXCEPT !.offset_start = offset_start,
                                    !.offset_end = offset_end,
                                    !.read_nbyte = offset_end - offset_start + 1]]

\* ------------------------------------------------------ text-mode file I/O
\* open(name) is a text-mode handle: reading translates "\r\n" and "\r" to
\* "\n" and counts characters after the translation.
RECURSIVE Translate(_)
Translate(b) ==
  IF b = << >> THEN << >>
  ELSE IF b[1] = CR /\ Len(b) >= 2 /\ b[2] = LF THEN <<LF>> \o Translate(Slice(b, 3, Len(b)))
  ELSE IF b[1] = CR THEN <<LF>> \o Translate(Tail(b))
  ELSE <<b[1]>> \o Translate(Tail(b))

\* f.read(n) with the handle at byte pos: at most n characters, fewer at the
\* end of the file, all of them when n < 0
ReadText(bytes, pos, n) ==
  LET text == Translate(Slice(bytes, pos + 1, Len(bytes)))
  IN  IF n < 0 THEN text ELSE Slice(text, 1, n)

\* StripNewlines that strips nothing
StripNothing(s) == s

\* s.replace('\n', '')
RECURSIVE StripNewlines(_)
StripNewlines(s) ==
  IF s = << >> THEN << >>
  ELSE IF s[1] = LF THEN StripNewlines(Tail(s))
  ELSE <<s[1]>> \o StripNewlines(Tail(s))

ClosedHandle == [open |-> FALSE, pos |-> 0]

\* SeekHandle on one cursor that all the handles share
SeekShared(handles, q, offset) == [p \in DOMAIN handles |-> [handles[p] EXCEPT !.pos = offset]]

\* file.seek(offset) on the handle of query q
SeekHandle(handles, q, offset) == [handles EXCEPT ![q].pos = offset]

\* what a query returned, and in warn the warning it printed to stderr
Pending == [kind |-> "pending", region |-> << >>, none |-> TRUE, seq |-> << >>, warn |-> ""]
ReturnStr(s, warn) ==
  [kind |-> "str", region |-> << >>, none |-> FALSE, seq |-> s, warn |-> warn]
ReturnNone(warn) ==
  [kind |-> "None", region |-> << >>, none |-> TRUE, seq |-> << >>, warn |-> warn]
ReturnPairNone(region, warn) ==
  [kind |-> "tuple", region |-> region, none |-> TRUE, seq |-> << >>, warn |-> warn]
ReturnPair(region, s) ==
  [kind |-> "tuple", region |-> region, none |-> FALSE, seq |-> s, warn |-> ""]

NoCall == [chrom |-> << >>, pstart |-> << >>, pend |-> << >>]

\* ------------------------------------------------------------------ state
VARIABLES
  world,        \* the files on disk, as parameters (what the files were made from)
  fa_file,      \* bytes of the sequence file fa_name
  fai_file,     \* lines of the index file fai_name
  cls,          \* class of the reader object: "Sequence" or "Fasta"
  constructed,  \* __init__ has run
  fai_data,     \* self.fai_data
  chrom_list,   \* self.chrom_list
  pc,           \* per query thread: where it is
  rargs,        \* per query thread: the arguments given to Region
  reg,          \* per query thread: outcome of Region(*args)
  call,         \* per query thread: arguments of Fasta.query_region
  loc,          \* per query thread: local variables of query_region
  fh,           \* per query thread: the file handle of its with-block
  touched,      \* per query thread: the call opened the sequence file
  result        \* per query thread: what query_region returned

vars == <<world, fa_file, fai_file, cls, constructed, fai_data, chrom_list,
          pc, rargs, reg, call, loc, fh, touched, result>>

disk == <<world, fa_file, fai_file, cls>>
table == <<constructed, fai_data, chrom_list>>

\* ----------------------------------------------------------------- inputs
QueryNames == {NameA, NameB, NameC, NameZ}
ArgNames == QueryNames \cup {<<"a", ":", "1">>, <<"a", "-", "b">>}
Positions == (0 - 1)..(MaxLen + 1)
OptPositions == {<< >>} \cup {<<p>> : p \in Positions}
RegionArgs ==
  {<< >>} \cup {<<n>> : n \in ArgNames}
    \cup {<<n, s>> : n \in ArgNames, s \in Positions}
    \cup {<<n, s, e>> : n \in ArgNames, s \in Positions, e \in Positions}
    \cup {<<n, 1, 1, 1>> : n \in ArgNames}

\* the inputs of the concurrent runs
ConcNames == {NameA, NameZ}
ConcPositions == {<<p>> : p \in 1..MaxLen}
ConcRegionArgs == {<<n, s, e>> : n \in ConcNames, s \in 1..MaxLen, e \in 1..MaxLen}
ConcWorlds ==
  {w \in Worlds : w.la = MaxLen /\ w.nbase = 2 /\ w.trunc = 0
                    /\ w.names = <<NameA, NameB, NameC>>}

\* ------------------------------------------------------------------- Init
InitOver(W, P) ==
  /\ world \in W
  /\ fa_file = FastaFile(world)
  /\ fai_file = IndexFile(world)
  /\ cls \in {"Sequence", "Fasta"}
  /\ constructed = FALSE
  /\ fai_data = << >>
  /\ chrom_list = << >>
  /\ pc = [q \in P |-> "idle"]
  /\ rargs = [q \in P |-> << >>]
  /\ reg = [q \in P |-> BlankRegion]
  /\ call = [q \in P |-> NoCall]
  /\ loc = [q \in P |-> NoLocals]
  /\ fh = [q \in P |-> ClosedHandle]
  /\ touched = [q \in P |-> FALSE]
  /\ result = [q \in P |-> Pending]

Init == InitOver(Worlds, {1})

InitConc == InitOver(ConcWorlds, {1, 2})

\* ---------------------------------------------------------------- actions
\* Sequence.__init__ / Fasta.__init__: load the index file
Construct ==
  /\ ~constructed
  /\ LET t == IF cls = "Sequence" THEN Sequence_load_index(fai_file)
              ELSE Fasta_read_index(fai_file)
     IN  /\ fai_data' = t.fai_data
         /\ chrom_list' = t.chrom_list
  /\ constructed' = TRUE
  /\ UNCHANGED <<disk, pc, rargs, reg, call, loc, fh, touched, result>>

\* the caller builds the query region: Region(*args)
NewRegion(q, inputs) ==
  /\ constructed /\ cls = "Sequence" /\ pc[q] = "idle"
  /\ \E args \in inputs :
       /\ rargs' = [rargs EXCEPT ![q] = args]
       /\ reg' = [reg EXCEPT ![q] = RegionInit(args)]
  /\ pc' = [pc EXCEPT ![q] = "region"]
  /\ UNCHANGED <<disk, table, call, loc, fh, touched, result>>

\* Sequence.query_region(qregion), lines 110-133
SeqBegin(q) ==
  /\ constructed /\ cls = "Sequence" /\ pc[q] = "region" /\ reg[q].exc = "none"
  /\ LET r == Sequence_resolve(fai_data, reg[q])
     IN  /\ loc' = [loc EXCEPT ![q] = r.loc]
         /\ IF r.found
              THEN /\ pc' = [pc EXCEPT ![q] = "computed"]
                   /\ result' = [result EXCEPT ![q] = Pending]
              ELSE /\ pc' = [pc EXCEPT ![q] = "done"]
                   /\ result' = [result EXCEPT ![q] = ReturnStr(<< >>, r.warn)]
  /\ touched' = [touched EXCEPT ![q] = FALSE]
  /\ UNCHANGED <<disk, table, rargs, reg, call, fh>>

\* Fasta.query_region(chrom, pstart, pend), lines 128-170
FastaBegin(q, names, positions) ==
  /\ constructed /\ cls = "Fasta" /\ pc[q] = "idle"
  /\ \E chrom \in names : \E pstart \in positions : \E pend \in positions :
       LET r == Fasta_resolve(fai_data, chrom, pstart, pend)
       IN  /\ call' = [call EXCEPT ![q] = [chrom |-> chrom, pstart |-> pstart,
                                            pend |-> pend]]
           /\ loc' = [loc EXCEPT ![q] = r.loc]
           /\ IF r.ok
                THEN /\ pc' = [pc EXCEPT ![q] = "computed"]
                     /\ result' = [result EXCEPT ![q] = Pending]
                ELSE /\ pc' = [pc EXCEPT ![q] = "done"]
                     /\ result' = [result EXCEPT ![q] =
                                     IF r.found
                                       THEN ReturnPairNone(r.loc.region, r.warn)
                                       ELSE ReturnNone(r.warn)]
  /\ touched' = [touched EXCEPT ![q] = FALSE]
  /\ UNCHANGED <<disk, table, rargs, reg, fh>>

\* with open(self.fa_name) as f:
Open(q) ==
  /\ pc[q] = "computed"
  /\ fh' = [fh EXCEPT ![q] = [open |-> TRUE, pos |-> 0]]
  /\ touched' = [touched EXCEPT ![q] = TRUE]
  /\ pc' = [pc EXCEPT ![q] = "opened"]
  /\ UNCHANGED <<disk, table, rargs, reg, call, loc, result>>

\* f.seek(offset_start)
Seek(q) ==
  /\ pc[q] = "opened"
  /\ fh' = SeekHandle(fh, q, loc[q].offset_start)
  /\ pc' = [pc EXCEPT ![q] = "sought"]
  /\ UNCHANGED <<disk, table, rargs, reg, call, loc, touched, result>>

\* f.read(read_nbyte).replace('\n', '')
Read(q) ==
  /\ pc[q] = "sought"
  /\ LET text == ReadText(fa_file, fh[q].pos, loc[q].read_nbyte)
     IN  loc' = [loc EXCEPT ![q].seq = StripNewlines(text)]
  /\ pc' = [pc EXCEPT ![q] = "read"]
  /\ UNCHANGED <<disk, table, rargs, reg, call, fh, touched, result>>

\* leaving the with-block closes the handle; then the return statement
Close(q) ==
  /\ pc[q] = "read"
  /\ fh' = [fh EXCEPT ![q] = ClosedHandle]
  /\ result' = [result EXCEPT ![q] =
                  IF cls = "Sequence" THEN ReturnStr(loc[q].seq, "")
                  ELSE ReturnPair(loc[q].region, loc[q].seq)]
  /\ pc' = [pc EXCEPT ![q] = "done"]
  /\ UNCHANGED <<disk, table, rargs, reg, call, loc, touched>>

\* the caller is done with the outcome (a result, or a Region it does not
\* query, or the exception Region raised)
Return(q) ==
  /\ pc[q] \in {"done", "region"}
  /\ pc' = [pc EXCEPT ![q] = "idle"]
  /\ rargs' = [rargs EXCEPT ![q] = << >>]
  /\ reg' = [reg EXCEPT ![q] = BlankRegion]
  /\ call' = [call EXCEPT ![q] = NoCall]
  /\ loc' = [loc EXCEPT ![q] = NoLocals]
  /\ touched' = [touched EXCEPT ![q] = FALSE]
  /\ result' = [result EXCEPT ![q] = Pending]
  /\ UNCHANGED <<disk, table, fh>>

Next ==
  \/ Construct
  \/ \E q \in DOMAIN pc : NewRegion(q, RegionArgs)
  \/ \E q \in DOMAIN pc : SeqBegin(q)
  \/ \E q \in DOMAIN pc : FastaBegin(q, QueryNames, OptPositions)
  \/ \E q \in DOMAIN pc : Open(q)
  \/ \E q \in DOMAIN pc : Seek(q)
  \/ \E q \in DOMAIN pc : Read(q)
  \/ \E q \in DOMAIN pc : Close(q)
  \/ \E q \in DOMAIN pc : Return(q)

NextConc ==
  \/ Construct
  \/ \E q \in DOMAIN pc : NewRegion(q, ConcRegionArgs)
  \/ \E q \in DOMAIN pc : SeqBegin(q)
  \/ \E q \in DOMAIN pc : FastaBegin(q, ConcNames, ConcPositions)
  \/ \E q \in DOMAIN pc : Open(q)
  \/ \E q \in DOMAIN pc : Seek(q)
  \/ \E q \in DOMAIN pc : Read(q)
  \/ \E q \in DOMAIN pc : Close(q)
  \/ \E q \in DOMAIN pc : Return(q)

Spec == Init /\ [][Next]_vars

SpecConc == InitConc /\ [][NextConc]_vars

\* =================================================================== claims
\* What a query was asked for, whichever class answers it.
Issued(q) == pc[q] \in {"computed", "opened", "sought", "read", "done"}
Done(q) == pc[q] = "done"
ReqChrom(q) == IF cls = "Sequence" THEN reg[q].chrom ELSE call[q].chrom
ReqStart(q) ==
  IF cls = "Sequence" THEN (IF reg[q].length = -1 THEN << >> ELSE <<reg[q].pstart>>)
  ELSE call[q].pstart
ReqEnd(q) ==
  IF cls = "Sequence" THEN (IF reg[q].length = -1 THEN << >> ELSE <<reg[q].pend>>)
  ELSE call[q].pend
Known(q) == Issued(q) /\ ReqChrom(q) \in DOMAIN fai_data
Supplied(q) == ReqStart(q) # << >> /\ ReqEnd(q) # << >>
ContigLen(q) == fai_data[ReqChrom(q)].chrom_len
InRange(q) ==
  /\ Known(q) /\ Supplied(q)
  /\ 1 <= ReqStart(q)[1] /\ ReqStart(q)[1] <= ReqEnd(q)[1] /\ ReqEnd(q)[1] <= ContigLen(q)

\* The contig of the sequence file that the loaded entry of a name describes:
\* the last one of that name.
LastOf(name) ==
  LET ks == {k \in 1..Len(Contigs(world)) : Contigs(world)[k].name = name}
  IN  CHOOSE k \in ks : \A j \in ks : j <= k
BasesOf(name) == Contigs(world)[LastOf(name)].bases

\* the sequence file is whole
WellFormed == fa_file = Layout(world)
\* every line of the sequence file ends in one newline byte
NewlineTerminated == world.term = "LF"

\* C1: for an in-range request (1 <= start <= end <= contig_length) against a
\* whole sequence file with newline-terminated lines, query_region returns
\* exactly bases start..end of the contig: end - start + 1 characters, none
\* of them a terminator; so one character when start = end and the whole
\* contig when start = 1 and end = contig_length.
C1_InRangeQueryReturnsBases ==
  \A q \in DOMAIN pc :
    (Done(q) /\ InRange(q) /\ WellFormed /\ NewlineTerminated) =>
      LET s == ReqStart(q)[1]
          e == ReqEnd(q)[1]
          got == result[q]
      IN  /\ got.kind \in {"str", "tuple"} /\ ~got.none
          /\ Len(got.seq) = e - s + 1
          /\ ~Contains(got.seq, LF) /\ ~Contains(got.seq, CR)
          /\ got.seq = Slice(BasesOf(ReqChrom(q)), s, e)
          /\ (s = e => Len(got.seq) = 1)
          /\ ((s = 1 /\ e = ContigLen(q)) => got.seq = BasesOf(ReqChrom(q)))

\* a finished in-range query whose bytes read held a line terminator
C1_Witness ==
  \E q \in DOMAIN pc :
    /\ Done(q) /\ InRange(q) /\ WellFormed /\ NewlineTerminated
    /\ ReqStart(q)[1] > 1 /\ ReqEnd(q)[1] < ContigLen(q)
    /\ loc[q].read_nbyte > ReqEnd(q)[1] - ReqStart(q)[1] + 1

\* index of the first occurrence of ch in s, 0 when absent
IndexOf(s, ch) ==
  IF Contains(s, ch) THEN CHOOSE i \in DOMAIN s : s[i] = ch /\ \A j \in 1..(i - 1) : s[j] # ch
  ELSE 0

SyntheticTable(byte_offset) ==
  [n \in {<<"c", "h", "r", "1">>} |->
     [chrom_len |-> 1000, byte_offset |-> byte_offset, line_nbase |-> 60, line_nchar |-> 61]]
SyntheticSeq(byte_offset, s, e) ==
  Sequence_resolve(SyntheticTable(byte_offset), RegionInit(<< <<"c", "h", "r", "1">>, s, e >>)).loc
SyntheticFasta(byte_offset, s, e) ==
  Fasta_resolve(SyntheticTable(byte_offset), <<"c", "h", "r", "1">>, <<s>>, <<e>>).loc

\* C2: for an in-range request the byte offsets are
\* byte_offset + p + (line_nchar - line_nbase) * floor(p / line_nbase) at
\* p = start - 1 and p = end - 1, they are the places of bases start and end
\* in the sequence file, and read_nbyte = offset_end - offset_start + 1; the
\* whole contig starts at byte_offset and ends on its last base.  With entry
\* (1000, 5, 60, 61): 1-60 is bytes [5, 64], 60 to read; 61-61 is byte 66;
\* with byte_offset 0, position 60 is byte 61.
C2_OffsetFormula ==
  /\ \A q \in DOMAIN pc :
       (Issued(q) /\ InRange(q)) =>
         LET en == fai_data[ReqChrom(q)]
             ps == ReqStart(q)[1] - 1
             pe == ReqEnd(q)[1] - 1
             nd == en.line_nchar - en.line_nbase
             bases == BasesOf(ReqChrom(q))
         IN  /\ loc[q].offset_start = en.byte_offset + ps + nd * (ps \div en.line_nbase)
             /\ loc[q].offset_end = en.byte_offset + pe + nd * (pe \div en.line_nbase)
             /\ loc[q].read_nbyte = loc[q].offset_end - loc[q].offset_start + 1
             /\ loc[q].offset_start + 1 = IndexOf(Layout(world), bases[ps + 1])
             /\ loc[q].offset_end + 1 = IndexOf(Layout(world), bases[pe + 1])
             /\ (ps = 0 => loc[q].offset_start = en.byte_offset)
             /\ (pe = en.chrom_len - 1 =>
                   Layout(world)[loc[q].offset_end + 1] = bases[Len(bases)])
  /\ \A f \in {"Sequence", "Fasta"} :
       LET at(b, s, e) == IF f = "Sequence" THEN SyntheticSeq(b, s, e)
                          ELSE SyntheticFasta(b, s, e)
       IN  /\ at(5, 1, 60).offset_start = 5 /\ at(5, 1, 60).offset_end = 64
           /\ at(5, 1, 60).read_nbyte = 60
           /\ at(5, 61, 61).offset_start = 66 /\ at(5, 61, 61).read_nbyte = 1
           /\ at(0, 61, 61).offset_start = 61
           /\ at(5, 1, 1000).offset_start = 5
           /\ at(5, 1, 1000).offset_end = 5 + 999 + 16

\* an in-range request whose start lies beyond the first line of its contig
C2_Witness ==
  \E q \in DOMAIN pc :
    /\ Issued(q) /\ InRange(q)
    /\ ReqStart(q)[1] - 1 >= 2 * fai_data[ReqChrom(q)].line_nbase
    /\ loc[q].offset_start > fai_data[ReqChrom(q)].byte_offset + ReqStart(q)[1]

\* ---- Region construction
Constructed(q) == cls = "Sequence" /\ pc[q] = "region"
HasDelimiter(args) == Len(args) >= 1 /\ (Contains(args[1], ":") \/ Contains(args[1], "-"))
BadPosition(args) ==
  \/ Len(args) >= 2 /\ args[2] <= 0
  \/ Len(args) >= 3 /\ args[3] <= 0
  \/ Len(args) >= 3 /\ args[3] < args[2]

\* C3: Region construction succeeds for each arity 0 to 3 with valid inputs:
\* no argument gives the empty region (contig '', length -1); the contig
\* alone gives the whole-contig region (that contig, length -1); contig and
\* position give start = end = position and length 1; contig, start and end
\* give them and length = end - start + 1.  The region renders as the contig
\* when length is -1 and as contig:start-end otherwise.
C3_RegionArities ==
  \A q \in DOMAIN pc :
    LET a == rargs[q]
        r == reg[q]
    IN  (Constructed(q) /\ Len(a) <= 3 /\ ~HasDelimiter(a) /\ ~BadPosition(a)) =>
          /\ r.exc = "none"
          /\ Len(a) = 0 => (r.chrom = << >> /\ r.length = -1 /\ RegionStr(r) = << >>)
          /\ Len(a) = 1 => (r.chrom = a[1] /\ r.length = -1 /\ RegionStr(r) = a[1])
          /\ Len(a) = 2 =>
               /\ r.chrom = a[1] /\ r.pstart = a[2] /\ r.pend = a[2] /\ r.length = 1
               /\ RegionStr(r) = a[1] \o <<":">> \o Dec(a[2]) \o <<"-">> \o Dec(a[2])
          /\ Len(a) = 3 =>
               /\ r.chrom = a[1] /\ r.pstart = a[2] /\ r.pend = a[3]
               /\ r.length = a[3] - a[2] + 1
               /\ RegionStr(r) = a[1] \o <<":">> \o Dec(a[2]) \o <<"-">> \o Dec(a[3])

\* C4: Region construction raises InternalError exactly when more than three
\* arguments are given or the contig contains ':' or '-'; it raises
\* RegionRangeError when arity and contig are acceptable and a position is
\* <= 0 or end < start (and only then); the two are different errors; and a
\* Region with length other than -1 has start >= 1, end >= 1, end >= start.
C4_RegionErrors ==
  \A q \in DOMAIN pc :
    LET a == rargs[q]
        r == reg[q]
        caller == Len(a) > 3 \/ HasDelimiter(a)
    IN  Constructed(q) =>
          /\ (r.exc = "InternalError") <=> caller
          /\ (~caller /\ BadPosition(a)) => r.exc = "RegionRangeError"
          /\ r.exc = "RegionRangeError" => (~caller /\ BadPosition(a))
          /\ r.exc = "RegionRangeError" => r.exc # "InternalError"
          /\ (r.exc = "none" /\ r.length # -1) =>
               (r.pstart >= 1 /\ r.pend >= 1 /\ r.pend >= r.pstart)

\* Region(contig, start, end) with end < start has just been refused
C4_Witness ==
  \E q \in DOMAIN pc :
    /\ Constructed(q) /\ Len(rargs[q]) = 3 /\ ~HasDelimiter(rargs[q])
    /\ rargs[q][2] >= 1 /\ rargs[q][3] >= 1 /\ rargs[q][3] < rargs[q][2]
    /\ reg[q].exc = "RegionRangeError"

\* ---- queries that are not in range
\* the region string the caller can present: the first element of Fasta's
\* pair, the str() of the Region given to Sequence
Reported(q) == IF cls = "Sequence" THEN RegionStr(reg[q]) ELSE result[q].region
NoSequence(q) == result[q].none

\* C5: a query on a known contig with end < start, start <= 0,
\* start > contig_length or end > contig_length is a range error: it returns
\* no sequence, reads nothing from the sequence file, and reports the
\* attempted region contig:start-end.
C5_OutOfRangeRejected ==
  \A q \in DOMAIN pc :
    (Done(q) /\ Known(q) /\ Supplied(q)) =>
      LET s == ReqStart(q)[1]
          e == ReqEnd(q)[1]
      IN  (e < s \/ s <= 0 \/ s > ContigLen(q) \/ e > ContigLen(q)) =>
            /\ NoSequence(q)
            /\ result[q].warn \in {"illegal start", "illegal end", "negative length"}
            /\ ~touched[q]
            /\ Reported(q) = ReqChrom(q) \o <<":">> \o Dec(s) \o <<"-">> \o Dec(e)

\* C6: normalization replaces only the bound that is missing or too large:
\* a missing start becomes 1, a missing or too large end becomes
\* contig_length, a supplied in-range start is kept.  So a region start..end
\* with 1 <= start <= contig_length < end returns bases start..contig_length,
\* and a whole-contig region returns bases 1..contig_length.  Stated of the
\* requests made with a Region.
C6_NormalizationKeepsStart ==
  \A q \in DOMAIN pc :
    (Done(q) /\ cls = "Sequence" /\ Known(q) /\ WellFormed /\ NewlineTerminated) =>
      LET n == ContigLen(q)
          bases == BasesOf(ReqChrom(q))
          startOk == ReqStart(q) = << >> \/ (1 <= ReqStart(q)[1] /\ ReqStart(q)[1] <= n)
          s == IF ReqStart(q) = << >> THEN 1 ELSE ReqStart(q)[1]
          endDefaulted == ReqEnd(q) = << >> \/ ReqEnd(q)[1] > n
      IN  (startOk /\ endDefaulted) =>
            (~NoSequence(q) /\ result[q].seq = Slice(bases, s, n))

\* C7: when the region's contig is not in the index table, query_region
\* warns that the chrom is not found and returns no sequence ('' from
\* Sequence, None from Fasta), and the sequence file is not opened, sought or
\* read in that call.
C7_UnknownContigNoRead ==
  \A q \in DOMAIN pc :
    (pc[q] \in {"computed", "opened", "sought", "read", "done"}
       /\ ReqChrom(q) \notin DOMAIN fai_data) =>
      /\ pc[q] = "done"
      /\ ~touched[q] /\ ~fh[q].open
      /\ result[q].warn = "chrom not found"
      /\ result[q].seq = << >>
      /\ IF cls = "Sequence" THEN result[q].kind = "str" ELSE result[q].kind = "None"

\* a finished query for a contig the index does not have
C7_Witness ==
  \E q \in DOMAIN pc :
    /\ Done(q) /\ ReqChrom(q) = NameZ /\ NameZ \notin DOMAIN fai_data
    /\ Supplied(q) /\ ReqStart(q)[1] >= 1 /\ ReqEnd(q)[1] >= ReqStart(q)[1]

\* ---- loading the index
Meta(l) ==
  [chrom_len |-> l.chrom_len, byte_offset |-> l.byte_offset,
   line_nbase |-> l.line_nbase, line_nchar |-> l.line_nchar]
LinesOf(name) == {i \in DOMAIN fai_file : fai_file[i].chrom = name}
FirstLine(name) == CHOOSE i \in LinesOf(name) : \A j \in LinesOf(name) : i <= j
LastLine(name) == CHOOSE i \in LinesOf(name) : \A j \in LinesOf(name) : j <= i
FileNames == {fai_file[i].chrom : i \in DOMAIN fai_file}
Occurrences(list, name) == Cardinality({i \in DOMAIN list : list[i] = name})
LastWins ==
  /\ DOMAIN fai_data = FileNames
  /\ \A name \in FileNames : fai_data[name] = Meta(fai_file[LastLine(name)])

\* C8 as stated: after loading an index file in which a name occurs more than
\* once, the lookup holds the last occurrence's metadata, and the ordered
\* name list holds the name exactly once, at the place of its first
\* occurrence, the list otherwise in file order.
C8_DuplicateListedOnce ==
  constructed =>
    /\ LastWins
    /\ \A name \in FileNames : Occurrences(chrom_list, name) = 1
    /\ \A m, n \in FileNames :
         FirstLine(m) < FirstLine(n) =>
           \E i, j \in DOMAIN chrom_list : i < j /\ chrom_list[i] = m /\ chrom_list[j] = n

\* C8 as amended: the lookup holds the last occurrence's metadata, and the
\* ordered name list holds one element per line of the index file, in file
\* order, so a name that occurs k times in the file occurs k times in the
\* list, at the places of its occurrences.
C8_DuplicateListedPerLine ==
  constructed =>
    /\ LastWins
    /\ Len(chrom_list) = Len(fai_file)
    /\ \A i \in DOMAIN fai_file : chrom_list[i] = fai_file[i].chrom
    /\ \A name \in FileNames : Occurrences(chrom_list, name) = Cardinality(LinesOf(name))

\* an index file with a name on two lines of different metadata was loaded
C8_Witness ==
  /\ constructed
  /\ \E i, j \in DOMAIN fai_file :
       /\ i < j /\ fai_file[i].chrom = fai_file[j].chrom
       /\ Meta(fai_file[i]) # Meta(fai_file[j])
       /\ fai_data[fai_file[j].chrom] = Meta(fai_file[j])

\* ---- short reads
ShortRead(q) ==
  Len(ReadText(fa_file, loc[q].offset_start, loc[q].read_nbyte)) < loc[q].read_nbyte

\* C9: when the sequence file is shorter than the index implies, so that the
\* read at offset_start yields fewer than read_nbyte characters, the query
\* fails: it does not return the partial read as a sequence.
C9_ShortReadFails ==
  \A q \in DOMAIN pc :
    (Done(q) /\ touched[q] /\ Len(fa_file) < Len(Layout(world)) /\ ShortRead(q)) =>
      NoSequence(q)

\* ---- concurrent queries
\* what query_region returns for the request of q when it runs alone
AloneResult(q) ==
  IF cls = "Sequence" THEN
    LET r == Sequence_resolve(fai_data, reg[q])
    IN  IF ~r.found THEN ReturnStr(<< >>, r.warn)
        ELSE ReturnStr(StripNewlines(ReadText(fa_file, r.loc.offset_start, r.loc.read_nbyte)),
                       "")
  ELSE
    LET r == Fasta_resolve(fai_data, call[q].chrom, call[q].pstart, call[q].pend)
    IN  IF ~r.found THEN ReturnNone(r.warn)
        ELSE IF ~r.ok THEN ReturnPairNone(r.loc.region, r.warn)
        ELSE ReturnPair(r.loc.region,
                        StripNewlines(ReadText(fa_file, r.loc.offset_start, r.loc.read_nbyte)))

LoadedTable ==
  IF cls = "Sequence" THEN Sequence_load_index(fai_file) ELSE Fasta_read_index(fai_file)

\* C10: queries running concurrently on one index table and one sequence
\* file do not interfere.  Each holds a handle of its own only between its
\* open and its close, the handle's position is the one the query itself
\* sought, the index table stays as loaded, and under every interleaving of
\* the open/seek/read/close steps a finished query has returned what it
\* returns alone.
C10_ConcurrentQueriesIndependent ==
  /\ constructed => (fai_data = LoadedTable.fai_data /\ chrom_list = LoadedTable.chrom_list)
  /\ \A q \in DOMAIN pc :
       /\ fh[q].open <=> pc[q] \in {"opened", "sought", "read"}
       /\ pc[q] \in {"sought", "read"} => fh[q].pos = loc[q].offset_start
       /\ pc[q] = "read" =>
            loc[q].seq = StripNewlines(ReadText(fa_file, loc[q].offset_start,
                                                loc[q].read_nbyte))
       /\ Done(q) => result[q] = AloneResult(q)

\* two queries for different places of the file, one finished and one still
\* holding its handle, sought
C10_Witness ==
  /\ Cardinality(DOMAIN pc) = 2
  /\ \E q, o \in DOMAIN pc :
       /\ q # o /\ Done(q) /\ touched[q] /\ pc[o] = "sought"
       /\ InRange(q) /\ InRange(o)
       /\ loc[q].offset_start # loc[o].offset_start
       /\ Len(result[q].seq) >= 2

\* ---- terminators of any width
TermWidth(q) == fai_data[ReqChrom(q)].line_nchar - fai_data[ReqChrom(q)].line_nbase

\* C11: the terminator width is line_nchar - line_nbase, whatever it is: for
\* every entry with line_nchar >= line_nbase (widths 0, 1 and 2) and every
\* in-range query on a whole sequence file, every terminator inside the
\* bytes read is stripped, so the result is end - start + 1 characters long
\* and holds no terminator byte.
C11_AnyTerminatorWidthStripped ==
  \A q \in DOMAIN pc :
    (Done(q) /\ InRange(q) /\ WellFormed /\ TermWidth(q) >= 0) =>
      /\ ~NoSequence(q)
      /\ Len(result[q].seq) = ReqEnd(q)[1] - ReqStart(q)[1] + 1
      /\ ~Contains(result[q].seq, LF) /\ ~Contains(result[q].seq, CR)

\* ---- the two implementations
\* the sequence Fasta.query_region(chrom, pstart, pend) returns, with its
\* offsets, on the table Fasta loads from the same index file
FastaAnswer(chrom, s, e) ==
  LET r == Fasta_resolve(Fasta_read_index(fai_file).fai_data, chrom, <<s>>, <<e>>)
  IN  [offset_start |-> r.loc.offset_start, offset_end |-> r.loc.offset_end,
       read_nbyte |-> r.loc.read_nbyte,
       seq |-> IF r.ok
                 THEN StripNewlines(ReadText(fa_file, r.loc.offset_start, r.loc.read_nbyte))
                 ELSE << >>]

\* the sequence Sequence.query_region(Region(chrom, pstart, pend)) returns,
\* with its offsets, on the table Sequence loads from the same index file
SequenceAnswer(chrom, s, e) ==
  LET r == Sequence_resolve(Sequence_load_index(fai_file).fai_data,
                            RegionInit(<<chrom, s, e>>))
  IN  [offset_start |-> r.loc.offset_start, offset_end |-> r.loc.offset_end,
       read_nbyte |-> r.loc.read_nbyte,
       seq |-> IF r.found
                 THEN StripNewlines(ReadText(fa_file, r.loc.offset_start, r.loc.read_nbyte))
                 ELSE << >>]

====
